---- MODULE Spec2Model ----
(***************************************************************************)
(* pix-express (src/main.js): an Express service over a SQLite file that   *)
(* registers, looks up and deletes PIX keys.  The model holds the process  *)
(* (store handle, bootstrap, listening socket), the two tables of the      *)
(* durable store, the requests in flight and the last response sent.       *)
(***************************************************************************)
EXTENDS Integers, Sequences, FiniteSets, Bags, TLC

\* ------------------------------------------------------------------ bounds
\* requests in flight at once
MaxReq == 2
\* ids pix_records' AUTOINCREMENT hands out
MaxPixId == 2

\* ------------------------------------------------------------- JSON values
\* A JSON value of a request body: a string (s: its characters), a positive
\* integer number (s: its decimal digits) or a missing field (undefined).
Digit == {"0", "1", "2", "3", "4", "5", "6", "7", "8", "9"}

HexDigit == Digit \cup {"a", "b", "c", "d", "e", "f"}

Str(cs) == [k |-> "str", s |-> cs]

Num(ds) == [k |-> "num", s |-> ds]

Absent == [k |-> "absent", s |-> <<>>]

Rep(n, c) == [i \in 1..n |-> c]

\* !v of JavaScript: undefined, "" and 0 are falsy.
Truthy(v) ==
    \/ v.k = "str" /\ v.s # <<>>
    \/ v.k = "num" /\ \E i \in 1..Len(v.s) : v.s[i] # "0"

\* String(v): what RegExp.prototype.test and a URL path segment see.
JsString(v) ==
    IF v.k = "absent"
    THEN <<"u", "n", "d", "e", "f", "i", "n", "e", "d">>
    ELSE v.s

\* ---------------------------------------------------------------- validators
IsSpaceOrAt(c) == c \in {" ", "@"}

\* /^[^\s@]+@[^\s@]+\.[^\s@]+$/
validateEmail(v) ==
    LET s == JsString(v)
    IN  \E i \in 2..Len(s) :
          /\ s[i] = "@"
          /\ \A j \in (1..Len(s)) \ {i} : ~IsSpaceOrAt(s[j])
          /\ \E d \in (i + 2)..(Len(s) - 1) : s[d] = "."

AllDigits(s, n) == Len(s) = n /\ \A i \in 1..n : s[i] \in Digit

\* /^\d{11}$/
validatePhone(v) == AllDigits(JsString(v), 11)

\* /^\d{11}$/
validateCPF(v) == AllDigits(JsString(v), 11)

\* /^\d{14}$/
validateCNPJ(v) == AllDigits(JsString(v), 14)

\* validate of the uuid package: a string of RFC 4122 syntax, or the nil
\* UUID (over the lower-case hexadecimal digits).
validateUUID(v) ==
    /\ v.k = "str"
    /\ Len(v.s) = 36
    /\ \A i \in 1..36 :
         IF i \in {9, 14, 19, 24} THEN v.s[i] = "-" ELSE v.s[i] \in HexDigit
    /\ \/ /\ v.s[15] \in {"1", "2", "3", "4", "5", "6", "7", "8"}
          /\ v.s[20] \in {"8", "9", "a", "b"}
       \/ \A i \in (1..36) \ {9, 14, 19, 24} : v.s[i] = "0"

\* --------------------------------------------------------------- type names
TEmail == <<"e", "m", "a", "i", "l">>

TPhone == <<"p", "h", "o", "n", "e">>

TCpf == <<"c", "p", "f">>

TCnpj == <<"c", "n", "p", "j">>

TUuid == <<"u", "u", "i", "d">>

TBitcoin == <<"b", "i", "t", "c", "o", "i", "n">>

validTypes == {TEmail, TPhone, TCpf, TCnpj, TUuid}

\* ------------------------------------------------------------------- store
\* Whether the decimal digits ds (no sign, no leading zero) are at most
\* 2147483647: the numbers node-sqlite3 binds as INTEGER; the others are
\* bound as REAL.
Int32Max == <<"2", "1", "4", "7", "4", "8", "3", "6", "4", "7">>

DigitVal(c) == CHOOSE n \in 0..9 : <<"0", "1", "2", "3", "4", "5", "6", "7", "8", "9">>[n + 1] = c

IsInt32(ds) ==
    \/ Len(ds) < Len(Int32Max)
    \/ /\ Len(ds) = Len(Int32Max)
       /\ \/ ds = Int32Max
          \/ \E i \in 1..Len(ds) :
               /\ \A j \in 1..(i - 1) : ds[j] = Int32Max[j]
               /\ DigitVal(ds[i]) < DigitVal(Int32Max[i])

\* The text a TEXT column keeps for a bound parameter: a string as it is, an
\* INTEGER as its digits, a REAL with the decimal point SQLite renders.
Bind(v) ==
    IF v.k = "num" /\ ~IsInt32(v.s) THEN v.s \o <<".", "0">> ELSE JsString(v)

\* SELECT * FROM pix_records WHERE pix_type = ? AND pix_value = ?
SelectPix(rows, t, v) == {r \in rows : r.pix_type = t /\ r.pix_value = v}

\* UNIQUE(pix_type, pix_value)
UniqueViolation(rows, t, v) == SelectPix(rows, t, v) # {}

InsertPixNoUnique(rows, row) == rows \cup {row}

\* INSERT INTO pix_records (...) VALUES (...) under the table's constraint
InsertPix(rows, row) ==
    IF UniqueViolation(rows, row.pix_type, row.pix_value)
    THEN rows
    ELSE rows \cup {row}

DeletePixNothing(rows, t, v) == rows

\* DELETE FROM pix_records WHERE pix_type = ? AND pix_value = ?
DeletePix(rows, t, v) == rows \ SelectPix(rows, t, v)

\* SELECT id FROM banks WHERE api_key = ?
SelectBank(rows, key) == {b \in rows : b.api_key = key}

BankRow(id, key, now) ==
    [id |-> id, name |-> "Banco Exemplo", api_key |-> key, created_at |-> now]

SeedBankReplace(rows, key, id, now) ==
    (rows \ SelectBank(rows, key)) \cup {BankRow(id, key, now)}

\* INSERT INTO banks (name, api_key) SELECT 'Banco Exemplo', ?
\*   WHERE NOT EXISTS (SELECT 1 FROM banks WHERE api_key = ?)
SeedBank(rows, key, id, now) ==
    IF SelectBank(rows, key) # {} THEN rows ELSE rows \cup {BankRow(id, key, now)}

\* ---------------------------------------------------------------- requests
\* x-api-key: NoKey is a request without the header.
NoKey == "none"

EnvKey == "key-1"

OtherKey == "key-x"

\* A POST /register body.  hasAccount / hasPix: whether accountInfo / pixInfo
\* are there; a field of a missing object is Absent.
Body(ha, hp, nome, cpf, banco, agencia, conta, type, value) ==
    [hasAccount |-> ha, hasPix |-> hp, nome |-> nome, cpf |-> cpf,
     banco |-> banco, agencia |-> agencia, conta |-> conta,
     type |-> type, value |-> value]

NoBody == Body(FALSE, FALSE, Absent, Absent, Absent, Absent, Absent, Absent, Absent)

\* route: "status", "get", "delete" or "register"; t, v: the path's
\* :type and :value.
Req(route, key, t, v, body) ==
    [route |-> route, key |-> key, t |-> t, v |-> v, body |-> body]

NoReq == Req("none", NoKey, <<>>, <<>>, NoBody)

ValidateCpfAfterType(b) ==
    IF ~(b.hasAccount /\ b.hasPix) THEN "Estrutura de dados invalida"
    ELSE IF ~Truthy(b.nome) THEN "Nome e obrigatorio"
    ELSE IF ~Truthy(b.cpf) THEN "CPF e obrigatorio"
    ELSE IF ~Truthy(b.banco) THEN "Banco e obrigatorio"
    ELSE IF ~Truthy(b.agencia) THEN "Agencia e obrigatoria"
    ELSE IF ~Truthy(b.conta) THEN "Conta e obrigatoria"
    ELSE IF ~Truthy(b.type) THEN "Tipo de chave PIX e obrigatorio"
    ELSE IF ~Truthy(b.value) THEN "Valor da chave PIX e obrigatorio"
    ELSE IF ~(b.type.k = "str" /\ b.type.s \in validTypes)
         THEN "Tipo de chave PIX invalido"
    ELSE IF ~validateCPF(b.cpf) THEN "CPF do titular e invalido"
    ELSE IF ~(CASE b.type.s = TEmail -> validateEmail(b.value)
                [] b.type.s = TPhone -> validatePhone(b.value)
                [] b.type.s = TCpf -> validateCPF(b.value)
                [] b.type.s = TCnpj -> validateCNPJ(b.value)
                [] OTHER -> validateUUID(b.value))
         THEN "Valor da chave PIX e invalido"
    ELSE ""

\* The 400 message of POST /register's validation, "" when it passes.
Validate(b) ==
    IF ~(b.hasAccount /\ b.hasPix) THEN "Estrutura de dados invalida"
    ELSE IF ~Truthy(b.nome) THEN "Nome e obrigatorio"
    ELSE IF ~Truthy(b.cpf) THEN "CPF e obrigatorio"
    ELSE IF ~Truthy(b.banco) THEN "Banco e obrigatorio"
    ELSE IF ~Truthy(b.agencia) THEN "Agencia e obrigatoria"
    ELSE IF ~Truthy(b.conta) THEN "Conta e obrigatoria"
    ELSE IF ~Truthy(b.type) THEN "Tipo de chave PIX e obrigatorio"
    ELSE IF ~Truthy(b.value) THEN "Valor da chave PIX e obrigatorio"
    ELSE IF ~validateCPF(b.cpf) THEN "CPF do titular e invalido"
    ELSE IF ~(b.type.k = "str" /\ b.type.s \in validTypes)
         THEN "Tipo de chave PIX invalido"
    ELSE IF ~(CASE b.type.s = TEmail -> validateEmail(b.value)
                [] b.type.s = TPhone -> validatePhone(b.value)
                [] b.type.s = TCpf -> validateCPF(b.value)
                [] b.type.s = TCnpj -> validateCNPJ(b.value)
                [] OTHER -> validateUUID(b.value))
         THEN "Valor da chave PIX e invalido"
    ELSE ""

\* ---------------------------------------------------------------- responses
\* by: who answered ("open": the unprotected route, "mw": the middleware,
\* "handler": the route handler before any statement, "store": the callback
\* of the handler's statement).  touched: the tables the request's
\* statements were run against.
NoResp ==
    [by |-> "none", status |-> 0, error |-> "", req |-> NoReq, id |-> 0,
     nome |-> Absent, cpf |-> Absent, banco |-> Absent, agencia |-> Absent,
     conta |-> Absent, ptype |-> Absent, pvalue |-> Absent, deleted |-> 0,
     touched |-> {}]

ErrResp(by, status, error, req, touched) ==
    [NoResp EXCEPT !.by = by, !.status = status, !.error = error,
                   !.req = req, !.touched = touched]

\* res.json of GET /record/:type/:value: the row, reshaped
RowResp(req, row) ==
    [NoResp EXCEPT !.by = "store", !.status = 200, !.req = req, !.id = row.id,
                   !.nome = Str(row.nome), !.cpf = Str(row.cpf),
                   !.banco = Str(row.banco), !.agencia = Str(row.agencia),
                   !.conta = Str(row.conta), !.ptype = Str(row.pix_type),
                   !.pvalue = Str(row.pix_value),
                   !.touched = {"banks", "pix_records"}]

\* res.status(201).json of POST /register: lastID and the request's values
CreatedResp(req, id) ==
    [NoResp EXCEPT !.by = "store", !.status = 201, !.req = req, !.id = id,
                   !.nome = req.body.nome, !.cpf = req.body.cpf,
                   !.banco = req.body.banco, !.agencia = req.body.agencia,
                   !.conta = req.body.conta, !.ptype = req.body.type,
                   !.pvalue = req.body.value,
                   !.touched = {"banks", "pix_records"}]

\* res.json of DELETE /record/:type/:value
DeletedResp(req, n) ==
    [NoResp EXCEPT !.by = "store", !.status = 200, !.req = req, !.deleted = n,
                   !.touched = {"banks", "pix_records"}]

\* params of the INSERT, as the columns keep them
PixRow(id, b) ==
    [id |-> id, pix_type |-> Bind(b.type), pix_value |-> Bind(b.value),
     nome |-> Bind(b.nome), cpf |-> Bind(b.cpf), banco |-> Bind(b.banco),
     agencia |-> Bind(b.agencia), conta |-> Bind(b.conta)]

\* -------------------------------------------------------------------- state
VARIABLES
    phase,       \* the process: "opening" (store being opened), "failed" (open
                 \* failed), "exited" (process.exit(1)), then the bootstrap:
                 \* "banks", "drain", "pix", "seed", and "ready"
    env,         \* process.env.X_API_KEY of this run, NoKey when unset
    era,         \* the clock of created_at: "first" during the first start of
                 \* the process on database.db, "later" after any restart
    banksTable,  \* whether table banks exists in database.db
    pixTable,    \* whether table pix_records exists in database.db
    banks,       \* the rows of banks
    nextBankId,  \* AUTOINCREMENT of banks
    pix,         \* the rows of pix_records
    nextPixId,   \* AUTOINCREMENT of pix_records
    inflight,    \* the bag of requests in flight, each waiting for its statement
    resp,        \* the response the last step sent, NoResp when it sent none
    reg,         \* history: the 201 responses whose pair no DELETE has removed since
    del          \* history: the pairs a DELETE answered 200 and no 201 followed

vars ==
    <<phase, env, era, banksTable, pixTable, banks, nextBankId, pix, nextPixId,
      inflight, resp, reg, del>>

store == <<banksTable, pixTable, banks, nextBankId, pix, nextPixId>>

\* pc: "auth" while the middleware's SELECT is pending, "stmt" while the
\* handler's statement is.
Waiting(pc, r) == [pc |-> pc, req |-> r]

AllIdle(fl) == fl = EmptyBag

\* app.listen: the socket is bound when the module is loaded and stays so
\* until the process ends.
Listening == phase # "exited"

\* When the store runs a statement a request issued.  Before the open
\* callback it is queued; from the callback until CREATE TABLE pix_records
\* starts, statements run side by side with CREATE TABLE banks; from then on
\* (db.serialize) they wait until the seed INSERT is done.
StmtEnabled == phase \in {"banks", "drain", "ready"}

\* CREATE TABLE pix_records, queued exclusive, starts once nothing is pending.
Settle(sl) == IF phase = "drain" /\ AllIdle(sl) THEN "pix" ELSE phase

\* ------------------------------------------------------------------ inputs
EnvKeys == {NoKey, EnvKey}

Phone1 == Rep(11, "1")

AcctA(type, value) ==
    Body(TRUE, TRUE, Str(<<"A">>), Str(Rep(11, "2")), Str(<<"B">>), Str(<<"1">>),
         Str(<<"2">>), type, value)

\* the account number and the CPF sent as JSON numbers
AcctB(type, value) ==
    Body(TRUE, TRUE, Str(<<"A">>), Num(Rep(11, "3")), Str(<<"B">>), Str(<<"1">>),
         Num(<<"2">>), type, value)

Bodies ==
    {AcctA(Str(TPhone), Str(Phone1)), AcctB(Str(TPhone), Str(Phone1)),
     AcctA(Str(TEmail), Str(<<"x">>))}

Requests ==
    {Req("status", NoKey, <<>>, <<>>, NoBody)}
    \cup {Req("get", k, TPhone, Phone1, NoBody) : k \in {NoKey, EnvKey, OtherKey}}
    \cup {Req("delete", k, TPhone, Phone1, NoBody) : k \in {NoKey, EnvKey, OtherKey}}
    \cup {Req("delete", EnvKey, TBitcoin, Phone1, NoBody)}
    \cup {Req("register", k, <<>>, <<>>, AcctA(Str(TPhone), Str(Phone1))) :
            k \in {NoKey, EnvKey, OtherKey}}
    \cup {Req("register", EnvKey, <<>>, <<>>, b) : b \in Bodies}

\* ----------------------------------------------------------------- process
Init ==
    /\ phase = "opening"
    /\ env \in EnvKeys
    /\ era = "first"
    /\ banksTable = FALSE
    /\ pixTable = FALSE
    /\ banks = {}
    /\ nextBankId = 1
    /\ pix = {}
    /\ nextPixId = 1
    /\ inflight = EmptyBag
    /\ resp = NoResp
    /\ reg = {}
    /\ del = {}

\* new sqlite3.Database's callback without err: the serialize block is
\* queued, then X_API_KEY is read and the process exits when it is unset.
OpenDone ==
    /\ phase = "opening"
    /\ IF env = NoKey
       THEN phase' = "exited" /\ inflight' = EmptyBag
       ELSE phase' = "banks" /\ UNCHANGED inflight
    /\ resp' = NoResp
    /\ UNCHANGED <<env, era, store, reg, del>>

\* the callback with err: the error is logged and nothing else happens
OpenFail ==
    /\ phase = "opening"
    /\ phase' = "failed"
    /\ resp' = NoResp
    /\ UNCHANGED <<env, era, store, inflight, reg, del>>

\* CREATE TABLE IF NOT EXISTS banks
CreateBanks ==
    /\ phase = "banks"
    /\ banksTable' = TRUE
    /\ phase' = IF AllIdle(inflight) THEN "pix" ELSE "drain"
    /\ resp' = NoResp
    /\ UNCHANGED <<env, era, pixTable, banks, nextBankId, pix, nextPixId, inflight, reg, del>>

\* CREATE TABLE IF NOT EXISTS pix_records
CreatePix ==
    /\ phase = "pix"
    /\ pixTable' = TRUE
    /\ phase' = "seed"
    /\ resp' = NoResp
    /\ UNCHANGED <<env, era, banksTable, banks, nextBankId, pix, nextPixId, inflight, reg, del>>

\* the seed INSERT INTO banks
SeedDefaultBank ==
    /\ phase = "seed"
    /\ banks' = SeedBank(banks, env, nextBankId, era)
    /\ nextBankId' = IF banks' # banks THEN nextBankId + 1 ELSE nextBankId
    /\ phase' = "ready"
    /\ resp' = NoResp
    /\ UNCHANGED <<env, era, banksTable, pixTable, pix, nextPixId, inflight, reg, del>>

\* The process ends (a crash, a kill, the exit above) and is started again
\* on the same database.db; the requests in flight are lost.
Restart ==
    /\ era' = "later"
    /\ env' \in EnvKeys
    /\ phase' = "opening"
    /\ inflight' = EmptyBag
    /\ resp' = NoResp
    /\ UNCHANGED <<store, reg, del>>

\* ---------------------------------------------------------------- requests
InFlightRegisters ==
    BagCardinality([w \in {x \in BagToSet(inflight) : x.req.route = "register"}
                      |-> inflight[w]])

\* A request arrives.  GET /status is answered at once; a protected route
\* goes through authenticateApiKey, which answers 401 without the header and
\* otherwise issues its SELECT on banks.
Arrive(r) ==
    /\ Listening
    /\ BagCardinality(inflight) < MaxReq
    /\ r.route = "register" => nextPixId + InFlightRegisters <= MaxPixId
    /\ IF r.route = "status"
       THEN /\ resp' = ErrResp("open", 200, "", r, {})
            /\ UNCHANGED inflight
       ELSE IF r.key = NoKey
       THEN /\ resp' = ErrResp("mw", 401, "API Key nao fornecida", r, {})
            /\ UNCHANGED inflight
       ELSE /\ resp' = NoResp
            /\ inflight' = inflight (+) SetToBag({Waiting("auth", r)})
    /\ UNCHANGED <<phase, env, era, store, reg, del>>

DeleteTypeAny(t) == TRUE

\* validTypes.includes(type) of DELETE /record/:type/:value
DeleteTypeOk(t) == t \in validTypes

\* What the route handler answers before any statement; status 0 when it
\* issues its statement instead.
Handle(r) ==
    IF r.route = "delete" /\ ~DeleteTypeOk(r.t)
    THEN ErrResp("handler", 400, "Tipo de chave PIX invalido", r, {"banks"})
    ELSE IF r.route = "register" /\ Validate(r.body) # ""
    THEN ErrResp("handler", 400, Validate(r.body), r, {"banks"})
    ELSE NoResp

\* The callback of the middleware's SELECT: 500 on a store error, 403 without
\* a row, else next(), the route handler.
AuthStep(w) ==
    /\ w.pc = "auth"
    /\ StmtEnabled
    /\ LET r == w.req
           out == IF ~banksTable
                  THEN ErrResp("mw", 500, "Erro interno na autenticacao", r, {"banks"})
                  ELSE IF SelectBank(banks, r.key) = {}
                  THEN ErrResp("mw", 403, "API Key invalida", r, {"banks"})
                  ELSE Handle(r)
           fl == IF out.status = 0
                 THEN (inflight (-) SetToBag({w})) (+) SetToBag({Waiting("stmt", r)})
                 ELSE inflight (-) SetToBag({w})
       IN  /\ resp' = out
           /\ inflight' = fl
           /\ phase' = Settle(fl)
    /\ UNCHANGED <<env, era, store, reg, del>>

InsertStatusAlwaysCreated(rows, row) == 201

\* the callback of the INSERT: 409 on 'UNIQUE constraint failed', else 201
InsertStatus(rows, row) ==
    IF UniqueViolation(rows, row.pix_type, row.pix_value) THEN 409 ELSE 201

SamePath(g, t, v) == JsString(g.ptype) = t /\ JsString(g.pvalue) = v

Registered(rs) ==
    [ptype |-> rs.ptype, pvalue |-> rs.pvalue, id |-> rs.id, nome |-> rs.nome,
     cpf |-> rs.cpf, banco |-> rs.banco, agencia |-> rs.agencia, conta |-> rs.conta]

\* The handler's statement runs and its callback answers.
StmtStep(w) ==
    /\ w.pc = "stmt"
    /\ StmtEnabled
    /\ LET r == w.req
           fl == inflight (-) SetToBag({w})
           found == SelectPix(pix, r.t, r.v)
           row == PixRow(nextPixId, r.body)
           both == {"banks", "pix_records"}
       IN  /\ inflight' = fl
           /\ phase' = Settle(fl)
           /\ IF ~pixTable
              THEN /\ resp' = ErrResp("store", 500, "no such table", r, both)
                   /\ UNCHANGED <<pix, nextPixId, reg, del>>
              ELSE IF r.route = "get"
              THEN /\ resp' = IF found = {}
                              THEN ErrResp("store", 404, "Registro nao encontrado", r, both)
                              ELSE RowResp(r, CHOOSE x \in found : TRUE)
                   /\ UNCHANGED <<pix, nextPixId, reg, del>>
              ELSE IF r.route = "delete"
              THEN /\ pix' = DeletePix(pix, r.t, r.v)
                   /\ resp' = IF found = {}
                              THEN ErrResp("store", 404, "Registro nao encontrado", r, both)
                              ELSE DeletedResp(r, Cardinality(found))
                   /\ reg' = IF found = {} THEN reg
                             ELSE {g \in reg : ~SamePath(g, r.t, r.v)}
                   /\ del' = IF found = {} THEN del ELSE del \cup {<<r.t, r.v>>}
                   /\ UNCHANGED nextPixId
              ELSE /\ pix' = InsertPix(pix, row)
                   /\ nextPixId' = IF pix' # pix THEN nextPixId + 1 ELSE nextPixId
                   /\ resp' = IF InsertStatus(pix, row) = 201
                              THEN CreatedResp(r, row.id)
                              ELSE ErrResp("store", 409, "Chave PIX ja registrada", r, both)
                   /\ reg' = IF resp'.status = 201 THEN reg \cup {Registered(resp')} ELSE reg
                   /\ del' = IF resp'.status = 201
                             THEN del \ {<<JsString(r.body.type), JsString(r.body.value)>>}
                             ELSE del
    /\ UNCHANGED <<env, era, banksTable, pixTable, banks, nextBankId>>

\* the store runs the pending statement of some request
Authenticate == \E w \in BagToSet(inflight) : AuthStep(w)

Answer == \E w \in BagToSet(inflight) : StmtStep(w)

\* ----------------------------------------------------------- specification
Next ==
    \/ OpenDone
    \/ OpenFail
    \/ CreateBanks
    \/ CreatePix
    \/ SeedDefaultBank
    \/ Restart
    \/ \E r \in Requests : Arrive(r)
    \/ Authenticate
    \/ Answer

Spec == Init /\ [][Next]_vars

\* ------------------------------------------------- POST /register alone
\* a version 4 UUID
UuidOk ==
    Rep(8, "a") \o <<"-">> \o Rep(4, "b") \o <<"-", "4">> \o Rep(3, "c")
      \o <<"-", "9">> \o Rep(3, "d") \o <<"-">> \o Rep(12, "e")

EmailOk == <<"a", "@", "b", ".", "c">>

EmailNoDot == <<"a", "@", "b">>

ValidationBodies ==
    {Body(TRUE, TRUE, nome, cpf, banco, agencia, conta, type, value) :
        nome \in {Absent, Str(<<>>), Str(<<"A">>)},
        cpf \in {Absent, Str(Rep(10, "2")), Str(Rep(11, "2")), Num(Rep(11, "3"))},
        banco \in {Absent, Str(<<>>), Str(<<"B">>)},
        agencia \in {Absent, Str(<<"1">>)},
        conta \in {Absent, Str(<<"2">>)},
        type \in {Absent, Str(TBitcoin), Str(TEmail), Str(TPhone), Str(TCpf),
                  Str(TCnpj), Str(TUuid)},
        value \in {Absent, Str(<<>>), Str(EmailOk), Str(EmailNoDot), Str(Phone1),
                   Str(Rep(14, "1")), Str(UuidOk)}}
    \cup {Body(FALSE, TRUE, Absent, Absent, Absent, Absent, Absent,
               Str(TEmail), Str(EmailOk)),
          Body(TRUE, FALSE, Str(<<"A">>), Str(Rep(11, "2")), Str(<<"B">>),
               Str(<<"1">>), Str(<<"2">>), Absent, Absent),
          NoBody}

ValidationRequests == {Req("register", EnvKey, <<>>, <<>>, b) : b \in ValidationBodies}

\* A store the bootstrap has finished, and one POST /register, of every
\* combination of missing, empty, malformed and well-formed fields, that has
\* arrived and waits for the middleware's SELECT.
InitValidate ==
    /\ phase = "ready"
    /\ env = EnvKey
    /\ era = "first"
    /\ banksTable = TRUE
    /\ pixTable = TRUE
    /\ banks = {BankRow(1, EnvKey, "first")}
    /\ nextBankId = 2
    /\ pix = {}
    /\ nextPixId = 1
    /\ \E r \in ValidationRequests : inflight = SetToBag({Waiting("auth", r)})
    /\ resp = NoResp
    /\ reg = {}
    /\ del = {}

NextValidate ==
    \/ Authenticate
    \/ Answer

SpecValidate == InitValidate /\ [][NextValidate]_vars

\* ------------------------------------------------------------------ claims
Protected(r) == r.route \in {"get", "delete", "register"}

\* C1: pix_records never holds two records with the same
\* (pix_type, pix_value), whatever the interleaving of registrations and
\* deletions.
C1_UniquePair ==
    \A a, b \in pix :
        (a.pix_type = b.pix_type /\ a.pix_value = b.pix_value) => a = b

\* a registration refused with 409 while another request's statement on
\* pix_records is pending
C1_Witness ==
    /\ resp.by = "store" /\ resp.status = 409
    /\ pix # {}
    /\ \E w \in BagToSet(inflight) :
         w.pc = "stmt" /\ w.req.route \in {"register", "delete"}

\* C2: a lookup of a pair that a 201 registered and no DELETE removed since
\* answers 200 with the id, the accountInfo and the pixInfo of that
\* registration.
C2_RoundTrip ==
    \A g \in reg :
        (resp.by = "store" /\ resp.req.route = "get"
           /\ SamePath(g, resp.req.t, resp.req.v))
        => /\ resp.status = 200
           /\ resp.id = g.id
           /\ resp.nome = g.nome /\ resp.cpf = g.cpf /\ resp.banco = g.banco
           /\ resp.agencia = g.agencia /\ resp.conta = g.conta
           /\ resp.ptype = g.ptype /\ resp.pvalue = g.pvalue

\* C3: while a pair is registered (a 201, no successful DELETE since), every
\* well-formed registration of the same pair is answered 409 and leaves
\* pix_records as it was.
C3_SecondRegister409 ==
    [][\A g \in reg :
         (resp'.by = "store" /\ resp'.req.route = "register"
            /\ g.ptype = resp'.req.body.type /\ g.pvalue = resp'.req.body.value)
         => (resp'.status = 409 /\ pix' = pix)]_vars

\* a 409 for a registration whose accountInfo differs from the stored one
C3_Witness ==
    /\ resp.by = "store" /\ resp.status = 409
    /\ \E g \in reg :
         /\ g.ptype = resp.req.body.type /\ g.pvalue = resp.req.body.value
         /\ g.conta # resp.req.body.conta

\* C4: after a DELETE of a pair answered 200, and until a registration of
\* that pair succeeds, every lookup and every further DELETE of the pair is
\* answered 404.
C4_DeletedThen404 ==
    [][(resp'.by = "store" /\ resp'.req.route \in {"get", "delete"}
          /\ <<resp'.req.t, resp'.req.v>> \in del)
       => resp'.status = 404]_vars

\* a lookup answered 404 for a pair that was registered and then deleted
C4_Witness ==
    /\ resp.by = "store" /\ resp.status = 404 /\ resp.req.route = "get"
    /\ <<resp.req.t, resp.req.v>> \in del

\* C5: on a protected route a request without key gets 401, one whose key
\* matches no Bank row gets 403, neither reaches the handler or the
\* pix_records table, the handler runs only for a key with a Bank row, and
\* GET /status is answered 200 without a key.
C5_AuthGate ==
    /\ (resp.by # "none" /\ Protected(resp.req)) =>
         /\ resp.req.key = NoKey => resp.status = 401
         /\ (resp.req.key # NoKey /\ SelectBank(banks, resp.req.key) = {})
              => resp.status = 403
         /\ resp.status \in {401, 403}
              => (resp.by = "mw" /\ "pix_records" \notin resp.touched)
         /\ resp.by \in {"handler", "store"} => SelectBank(banks, resp.req.key) # {}
    /\ \A w \in BagToSet(inflight) :
         w.pc = "stmt" => SelectBank(banks, w.req.key) # {}
    /\ (resp.by # "none" /\ resp.req.route = "status") => resp.status = 200

\* C6 as stated: a DELETE with an unrecognised type is answered 400 and no
\* table at all is read or written while it is processed.
C6_NoStoreAccess ==
    (resp.by = "handler" /\ resp.req.route = "delete" /\ resp.req.t \notin validTypes)
    => (resp.status = 400 /\ resp.touched = {})

\* C6 amended: an authenticated DELETE with an unrecognised type is answered
\* 400 by the handler, which issues no statement on pix_records; the one
\* store access of the request is the middleware's SELECT on banks.
C6_OnlyAuthLookup ==
    /\ (resp.by \in {"handler", "store"} /\ resp.req.route = "delete"
          /\ resp.req.t \notin validTypes)
       => (resp.by = "handler" /\ resp.status = 400 /\ resp.touched = {"banks"})
    /\ \A w \in BagToSet(inflight) :
         (w.pc = "stmt" /\ w.req.route = "delete") => w.req.t \in validTypes

\* DELETE /record/bitcoin/... answered 400 by the handler
C6_Witness ==
    /\ resp.by = "handler" /\ resp.status = 400
    /\ resp.req.route = "delete" /\ resp.req.t = TBitcoin

\* C7: a process started without X_API_KEY never reaches a state in which
\* it is listening and has served a request, on no startup path.
C7_NoPartialStartup ==
    env = NoKey => ~(Listening /\ resp.by # "none")

\* C8: a Bank row, once there, is never changed or removed; a row is added
\* only by the bootstrap's seed and only when no row has the key; after each
\* bootstrap exactly one row has the configured key.
C8_SeedIdempotent ==
    [][/\ \A b \in banks : b \in banks'
       /\ banks' # banks => (phase = "seed" /\ SelectBank(banks, env) = {})
       /\ phase' = "ready" => Cardinality(SelectBank(banks', env')) = 1]_vars

\* a second bootstrap finished and the row of the first run is still there
C8_Witness ==
    /\ era = "later" /\ phase = "ready"
    /\ \E b \in banks : b.api_key = env /\ b.created_at = "first" /\ b.id = 1

\* C9: the steps of POST /register's validation, in the order of the claim.
StepOk(n, b) ==
    CASE n = 1 -> b.hasAccount /\ b.hasPix
      [] n = 2 -> Truthy(b.nome)
      [] n = 3 -> Truthy(b.cpf)
      [] n = 4 -> Truthy(b.banco)
      [] n = 5 -> Truthy(b.agencia)
      [] n = 6 -> Truthy(b.conta)
      [] n = 7 -> Truthy(b.type)
      [] n = 8 -> Truthy(b.value)
      [] n = 9 -> validateCPF(b.cpf)
      [] n = 10 -> b.type.k = "str" /\ b.type.s \in validTypes
      [] n = 11 -> \/ b.type.s = TEmail /\ validateEmail(b.value)
                   \/ b.type.s = TPhone /\ validatePhone(b.value)
                   \/ b.type.s = TCpf /\ validateCPF(b.value)
                   \/ b.type.s = TCnpj /\ validateCNPJ(b.value)
                   \/ b.type.s = TUuid /\ validateUUID(b.value)

StepMsg(n) ==
    <<"Estrutura de dados invalida", "Nome e obrigatorio", "CPF e obrigatorio",
      "Banco e obrigatorio", "Agencia e obrigatoria", "Conta e obrigatoria",
      "Tipo de chave PIX e obrigatorio", "Valor da chave PIX e obrigatorio",
      "CPF do titular e invalido", "Tipo de chave PIX invalido",
      "Valor da chave PIX e invalido">>[n]

Failing(b) == {n \in 1..11 : ~StepOk(n, b)}

FirstFailing(b) == CHOOSE n \in Failing(b) : \A m \in Failing(b) : n <= m

\* C9: an authenticated POST /register failing a step is answered 400 with
\* the message of the first failing step and no INSERT is issued; the INSERT
\* is issued only when every step passes.
C9_FirstFailureWins ==
    /\ (resp.by \in {"handler", "store"} /\ resp.req.route = "register") =>
         IF Failing(resp.req.body) # {}
         THEN /\ resp.by = "handler" /\ resp.status = 400
              /\ resp.error = StepMsg(FirstFailing(resp.req.body))
              /\ "pix_records" \notin resp.touched
         ELSE resp.by = "store" /\ resp.status \in {201, 409}
    /\ \A w \in BagToSet(inflight) :
         (w.pc = "stmt" /\ w.req.route = "register") => Failing(w.req.body) = {}

\* a malformed holder CPF reported although the type is unknown as well
C9_Witness ==
    /\ resp.by = "handler" /\ resp.status = 400
    /\ resp.error = "CPF do titular e invalido"
    /\ resp.req.body.type = Str(TBitcoin)

\* C10: a protected request carrying the configured X_API_KEY is never
\* answered 403 or 500, however it interleaves with startup.
C10_BootstrapFirst ==
    (resp.by # "none" /\ Protected(resp.req) /\ env # NoKey /\ resp.req.key = env)
    => resp.status \notin {403, 500}

====
